---- MODULE Spec2Model ----
(***************************************************************************)
(* The RAG pipeline of the e-learning marketplace: server/rag.ts           *)
(* (RAGService), the storage methods it uses (server/storage.ts), the      *)
(* batch script processAllLessonsForRAG and the process-lesson route.      *)
(* server/rag.ts holds two RAGService classes; the first one (Gemini       *)
(* embeddings, yt-dlp download, local Whisper subprocess) is the one       *)
(* modelled here.  Database reads are taken to succeed; database writes,   *)
(* the download, the subprocess and the embedding backend may fail.        *)
(*                                                                         *)
(* Text representation.  A JavaScript string s is represented by the       *)
(* sequence s.split(' ') of its space-free tokens (tokens may be empty:    *)
(* "" is <<"">>, "a  b" is <<"a","","b">>).  split(' ') and join(' ') are  *)
(* exact inverses of each other, so this representation is a bijection     *)
(* between strings and non-empty token sequences; the empty sequence       *)
(* <<>> stands for null.                                                   *)
(***************************************************************************)
EXTENDS Integers, Sequences, FiniteSets, TLC

\* ------------------------------------------------------------------ bounds
NumLessons == 2          \* lessons in the database
MaxRequests == 2         \* process-lesson requests served in one run
ShortWords == 2          \* words spoken in video "vidA"
LongWords == 801         \* words spoken in video "vidB" (three chunks)
MaxWords == 3            \* longest transcript handed to the chunker alone
MaxChunks == MaxWords + 1  \* iterations of the chunker loop that are followed
MaxSize == 3              \* largest chunkSize / overlap handed to the chunker
MaxTexts == 3             \* most texts handed to one generateEmbeddings call
MaxStore == 3             \* most rows of text_chunks a search runs over
MaxContext == 2           \* most chunks handed to generateRAGResponse
MaxTracks == 3            \* most caption tracks a video has

\* ------------------------------------------------------- program constants
DefaultChunkSize == 500  \* chunkTranscript(transcript, chunkSize = 500, ...)
DefaultOverlap == 100    \* chunkTranscript(..., overlap = 100)
duration == 300          \* const duration = 300

Lessons == 1..NumLessons
Videos == {"vidA", "vidB"}
ReqCallers == {"reqA", "reqB"}
Callers == ReqCallers \cup {"batch"}
NoText == << >>          \* null transcript
NoPath == "none"         \* null audio path
NoVector == << >>        \* undefined embedding

Min(a, b) == IF a < b THEN a ELSE b
Max(a, b) == IF a > b THEN a ELSE b

\* ------------------------------------------------------------ the chunker
\* Array.prototype.slice(start, end): negative indexes count from the end.
RelIndex(k, n) == IF k < 0 THEN Max(n + k, 0) ELSE Min(k, n)

Slice(words, start, end) ==
    LET n == Len(words)
        from == RelIndex(start, n)
        to == RelIndex(end, n)
    IN  IF from < to THEN SubSeq(words, from + 1, to) ELSE << >>

\* Math.floor(progress * duration) with progress = k / totalWords; the
\* IEEE-754 result equals the integer floor for every (k, totalWords) the
\* model reaches (totalWords < 15, and the long transcript's windows).
TimeAt(k, totalWords) == (k * duration) \div totalWords

\* ChunkAt whose window is one word short: words.slice(i, i + chunkSize - 1).
ChunkAt_OffByOne(words, i, chunkSize) ==
    LET totalWords == Len(words)
    IN  [content |-> Slice(words, i, i + chunkSize - 1),
         startTime |-> TimeAt(i, totalWords),
         endTime |-> IF i + chunkSize >= totalWords THEN duration
                     ELSE TimeAt(i + chunkSize, totalWords)]

\* One iteration of the chunker loop, for window start i.
ChunkAt(words, i, chunkSize) ==
    LET totalWords == Len(words)
    IN  [content |-> Slice(words, i, i + chunkSize),
         startTime |-> TimeAt(i, totalWords),
         endTime |-> IF i + chunkSize >= totalWords THEN duration
                     ELSE TimeAt(i + chunkSize, totalWords)]

RECURSIVE ChunkLoop(_, _, _, _, _)
ChunkLoop(words, i, chunkSize, overlap, chunks) ==
    IF i < Len(words)
    THEN ChunkLoop(words, i + (chunkSize - overlap), chunkSize, overlap,
                   Append(chunks, ChunkAt(words, i, chunkSize)))
    ELSE chunks

\* chunkTranscript for a positive step (the loop then terminates).
chunkTranscript(transcript, chunkSize, overlap) ==
    ChunkLoop(transcript, 0, chunkSize, overlap, << >>)

\* --------------------------------------------------- embedding provider
\* The vector the backend returns for a text: a function of the text alone.
EmbeddingOf(text) == <<Len(text), IF Len(text) > 0 THEN text[1] ELSE 0>>

\* generateEmbeddings that swallows the error of a failing embedContent call
\* and returns the vectors obtained so far.
generateEmbeddings_Partial(configured, texts, failAt) ==
    IF ~configured THEN [threw |-> TRUE, value |-> << >>]
    ELSE IF failAt \in 1..Len(texts)
    THEN [threw |-> FALSE,
          value |-> [k \in 1..(failAt - 1) |-> EmbeddingOf(texts[k])]]
    ELSE [threw |-> FALSE,
          value |-> [k \in 1..Len(texts) |-> EmbeddingOf(texts[k])]]

\* generateEmbeddings(texts); failAt = 0: every embedContent call succeeds,
\* failAt = k: the call for texts[k] fails.
generateEmbeddings(configured, texts, failAt) ==
    IF ~configured THEN [threw |-> TRUE, value |-> << >>]
    ELSE IF failAt \in 1..Len(texts) THEN [threw |-> TRUE, value |-> << >>]
    ELSE [threw |-> FALSE,
          value |-> [k \in 1..Len(texts) |-> EmbeddingOf(texts[k])]]

\* ----------------------------------------------------- answer synthesizer
SnippetLimit == 200      \* chunk.content.substring(0, 200)

NotConfiguredMsg ==
    "AI assistant is not configured. Please check Google Gemini API key."
ApologyMsg ==
    "Sorry, I encountered an error while generating a response. Please try again."
NoAnswerMsg == "I couldn't generate a response."
\* words.join(' '): the string a word sequence stands for.
RECURSIVE Join(_)
Join(words) ==
    IF Len(words) = 0 THEN ""
    ELSE IF Len(words) = 1 THEN words[1]
    ELSE words[1] \o " " \o Join(Tail(words))

\* The template literal of the empty-context answer.
NoInfoMsg(question, courseTitle) ==
    "I don't have specific information from the course content about \""
    \o question \o "\". The course \"" \o courseTitle
    \o "\" may not have been processed for AI assistance yet, or this topic might not be covered in the available video transcripts. Try asking about specific topics you see in the course lessons."

\* The call reaches chat.sendMessage: neither early return is taken.
CallsModel(configured, relevantChunks) ==
    configured /\ Len(relevantChunks) # 0

\* Snippet that marks a text as cut when it has reached the limit.
Snippet_InclusiveLimit(content) ==
    LET str == Join(content)
    IN  SubSeq(str, 1, Min(SnippetLimit, Len(str)))
            \o (IF Len(str) >= SnippetLimit THEN "..." ELSE "")

\* content.substring(0, 200) + (content.length > 200 ? '...' : ''), the
\* content being the string its words stand for.
Snippet(content) ==
    LET str == Join(content)
    IN  SubSeq(str, 1, Min(SnippetLimit, Len(str)))
            \o (IF Len(str) > SnippetLimit THEN "..." ELSE "")

\* generateRAGResponse without the empty-context return: the model is asked
\* even when no chunk was retrieved.
generateRAGResponse_NoEmptyBranch(configured, question, courseTitle, courseDescription, relevantChunks, reply) ==
    IF ~configured THEN [answer |-> NotConfiguredMsg, sources |-> << >>]
    ELSE LET sources == [k \in 1..Len(relevantChunks) |->
                          [lessonId |-> relevantChunks[k].lessonId,
                           timestamp |-> relevantChunks[k].startTime,
                           snippet |-> Snippet(relevantChunks[k].content)]]
         IN  IF reply.threw THEN [answer |-> ApologyMsg, sources |-> sources]
             ELSE [answer |-> IF reply.text = "" THEN NoAnswerMsg
                              ELSE reply.text,
                   sources |-> sources]

\* generateRAGResponse that tests for an empty context before it tests for
\* the missing model.
generateRAGResponse_EmptyFirst(configured, question, courseTitle, courseDescription, relevantChunks, reply) ==
    IF Len(relevantChunks) = 0
    THEN [answer |-> NoInfoMsg(question, courseTitle), sources |-> << >>]
    ELSE IF ~configured
    THEN [answer |-> NotConfiguredMsg, sources |-> << >>]
    ELSE LET sources == [k \in 1..Len(relevantChunks) |->
                          [lessonId |-> relevantChunks[k].lessonId,
                           timestamp |-> relevantChunks[k].startTime,
                           snippet |-> Snippet(relevantChunks[k].content)]]
         IN  IF reply.threw THEN [answer |-> ApologyMsg, sources |-> sources]
             ELSE [answer |-> IF reply.text = "" THEN NoAnswerMsg
                              ELSE reply.text,
                   sources |-> sources]

\* generateRAGResponse whose catch block answers with the error's message.
generateRAGResponse_RawError(configured, question, courseTitle, courseDescription, relevantChunks, reply) ==
    IF ~configured THEN [answer |-> NotConfiguredMsg, sources |-> << >>]
    ELSE IF Len(relevantChunks) = 0
    THEN [answer |-> NoInfoMsg(question, courseTitle), sources |-> << >>]
    ELSE LET sources == [k \in 1..Len(relevantChunks) |->
                          [lessonId |-> relevantChunks[k].lessonId,
                           timestamp |-> relevantChunks[k].startTime,
                           snippet |-> Snippet(relevantChunks[k].content)]]
         IN  IF reply.threw THEN [answer |-> reply.text, sources |-> sources]
             ELSE [answer |-> IF reply.text = "" THEN NoAnswerMsg
                              ELSE reply.text,
                   sources |-> sources]

\* generateRAGResponse whose catch block returns no sources.
generateRAGResponse_NoSourcesOnError(configured, question, courseTitle, courseDescription, relevantChunks, reply) ==
    IF ~configured THEN [answer |-> NotConfiguredMsg, sources |-> << >>]
    ELSE IF Len(relevantChunks) = 0
    THEN [answer |-> NoInfoMsg(question, courseTitle), sources |-> << >>]
    ELSE LET sources == [k \in 1..Len(relevantChunks) |->
                          [lessonId |-> relevantChunks[k].lessonId,
                           timestamp |-> relevantChunks[k].startTime,
                           snippet |-> Snippet(relevantChunks[k].content)]]
         IN  IF reply.threw THEN [answer |-> ApologyMsg, sources |-> << >>]
             ELSE [answer |-> IF reply.text = "" THEN NoAnswerMsg
                              ELSE reply.text,
                   sources |-> sources]

\* generateRAGResponse; reply is what chat.sendMessage does: it throws, or
\* it returns a text (possibly empty).
generateRAGResponse(configured, question, courseTitle, courseDescription, relevantChunks, reply) ==
    IF ~configured THEN [answer |-> NotConfiguredMsg, sources |-> << >>]
    ELSE IF Len(relevantChunks) = 0
    THEN [answer |-> NoInfoMsg(question, courseTitle), sources |-> << >>]
    ELSE LET sources == [k \in 1..Len(relevantChunks) |->
                          [lessonId |-> relevantChunks[k].lessonId,
                           timestamp |-> relevantChunks[k].startTime,
                           snippet |-> Snippet(relevantChunks[k].content)]]
         IN  IF reply.threw THEN [answer |-> ApologyMsg, sources |-> sources]
             ELSE [answer |-> IF reply.text = "" THEN NoAnswerMsg
                              ELSE reply.text,
                   sources |-> sources]

\* ------------------------------------------------------------ the videos
\* What the speech-to-text subprocess prints for a video's audio.
WordCount(v) == IF v = "vidA" THEN ShortWords ELSE LongWords
SpokenWords(v) == [k \in 1..WordCount(v) |-> k]

\* ------------------------------------------------------------------ state
VARIABLES
    geminiKey,         \* process.env.GOOGLE_GEMINI_API_KEY is set
    lessonVideo,       \* lesson.youtubeVideoId of every lesson
    files,             \* temp/<videoId>.mp3: who wrote it, has it content
    videoTranscripts,  \* rows of table video_transcripts
    textChunks,        \* rows of table text_chunks
    call,              \* the processLessonForRAG call of every caller
    nreq,              \* process-lesson requests served so far
    overlapped,        \* lessons that had two calls in progress at once
    batchPc, batchIdx, totalLessons, processedLessons, attempted,
    cwords, csize, coverlap, ci, cchunks, cpc,  \* a chunkTranscript call
    etexts, efailAt, eembeddings, epc,          \* a generateEmbeddings call
    squery, slessonId, slimit, sthreshold,      \* arguments of semanticSearch
    scalls,            \* the semanticSearch calls made with them, in order
    aquestion, achunks, areply, aresult, apc,   \* a generateRAGResponse call
    acalled,           \* that call has reached chat.sendMessage
    chatMessages,      \* rows of table chat_messages, in insertion order
    chat,              \* the POST /api/chat/:courseId request
    youtubeKey,        \* process.env.YOUTUBE_API_KEY is set
    captionTracks,     \* the caption tracks YouTube lists for the video
    cap                \* a getVideoTranscript call of the caption service

ingestVars == <<geminiKey, lessonVideo, files, videoTranscripts, textChunks,
                call, nreq, overlapped>>
batchVars == <<batchPc, batchIdx, totalLessons, processedLessons, attempted>>
chunkVars == <<cwords, csize, coverlap, ci, cchunks, cpc>>
embedVars == <<etexts, efailAt, eembeddings, epc>>
searchVars == <<squery, slessonId, slimit, sthreshold, scalls>>
answerVars == <<aquestion, achunks, areply, aresult, apc, acalled>>
chatVars == <<chatMessages, chat>>
captionVars == <<youtubeKey, captionTracks, cap>>
queryVars == <<embedVars, searchVars, answerVars, chatVars, captionVars>>
pureVars == <<chunkVars, queryVars>>
vars == <<ingestVars, batchVars, pureVars>>

NoFile == [by |-> 0, full |-> FALSE]

IdleCall ==
    [pc |-> "idle", lesson |-> 0, no |-> 0, audioPath |-> NoPath,
     transcript |-> NoText, recId |-> 0, chunks |-> << >>,
     embeddings |-> << >>, i |-> 0, result |-> "none", status |-> 0,
     dl |-> "none", whisper |-> "none", dbFail |-> "none",
     embedFail |-> 0, embedCalls |-> 0, wrote |-> 0, raced |-> FALSE,
     retry |-> FALSE, afterEmbedFail |-> FALSE]

InFlight(p) == call[p].pc \notin {"idle", "done"}

\* The lessons in the order the nested loops of the batch job visit them
\* (one course per lesson, one section per course).
BatchOrder == [k \in 1..NumLessons |-> k]

\* storage.getVideoTranscript(lessonId): the rows the query matches.
TranscriptRows(l) == {r \in videoTranscripts : r.lessonId = l}

\* processLessonForRAG returns or throws: the locals go away, the caller
\* of the route answers 200 or 500.
Finish(p, c, res) ==
    [c EXCEPT !.pc = "done", !.result = res,
              !.transcript = NoText, !.chunks = << >>, !.embeddings = << >>,
              !.recId = 0, !.i = 0,
              !.status = IF p \in ReqCallers
                         THEN (IF res = "threw" THEN 500 ELSE 200) ELSE 0]

\* ------------------------------------------------------------------- Init
ChunkIdle ==
    /\ cwords = << >> /\ csize = 0 /\ coverlap = 0
    /\ ci = 0 /\ cchunks = << >> /\ cpc = "idle"

EmbedIdle ==
    /\ etexts = << >> /\ efailAt = 0 /\ eembeddings = << >> /\ epc = "idle"

SearchIdle ==
    /\ squery = NoText /\ slessonId = 0 /\ slimit = 0 /\ sthreshold = 0
    /\ scalls = << >>

AnswerIdle ==
    /\ aquestion = "" /\ achunks = << >>
    /\ areply = [threw |-> FALSE, text |-> ""]
    /\ aresult = [answer |-> "", sources |-> << >>] /\ apc = "idle"
    /\ acalled = FALSE

IdleChat ==
    [pc |-> "idle", courseId |-> 0, content |-> NoText, lessonIds |-> {},
     relevantChunks |-> << >>, reply |-> [threw |-> FALSE, text |-> ""],
     called |-> FALSE, answer |-> "", sources |-> << >>,
     status |-> 0, message |-> ""]

ChatIdle == chatMessages = << >> /\ chat = IdleChat

IdleCap ==
    [pc |-> "idle", lesson |-> 0, items |-> << >>, englishCaption |-> 0,
     captions |-> NoText, result |-> NoText, failed |-> "none"]

CaptionIdle == youtubeKey = FALSE /\ captionTracks = << >> /\ cap = IdleCap

QueryIdle ==
    EmbedIdle /\ SearchIdle /\ AnswerIdle /\ ChatIdle /\ CaptionIdle

BatchIdle ==
    /\ batchPc = "idle" /\ batchIdx = 1
    /\ totalLessons = 0 /\ processedLessons = 0 /\ attempted = << >>

Init ==
    /\ geminiKey \in BOOLEAN
    /\ lessonVideo \in {f \in [Lessons -> Videos] : f[1] = "vidA"}
    /\ files = [v \in Videos |-> NoFile]
    /\ videoTranscripts = {}
    /\ textChunks = {}
    /\ call = [p \in Callers |-> IdleCall]
    /\ nreq = 0
    /\ overlapped = {}
    /\ BatchIdle
    /\ ChunkIdle
    /\ QueryIdle

\* ---------------------------------------------- processLessonForRAG steps
\* CheckExisting with the "already processed" test inverted.
CheckExisting_Inverted(p, l, n) ==
    LET c == [IdleCall EXCEPT !.lesson = l, !.no = n,
                !.raced = \E q \in Callers \ {p} :
                              InFlight(q) /\ call[q].lesson = l,
                !.retry = /\ call[p].result = "skipped"
                          /\ call[p].lesson = l
                          /\ call[p].dbFail = "none",
                !.afterEmbedFail = /\ call[p].result = "threw"
                                   /\ call[p].lesson = l
                                   /\ call[p].embedFail # 0]
    IN  /\ call' = [call EXCEPT ![p] =
                     IF TranscriptRows(l) = {} THEN Finish(p, c, "already")
                     ELSE [c EXCEPT !.pc = "download"]]
        /\ overlapped' = IF c.raced THEN overlapped \cup {l} ELSE overlapped

\* Entry of processLessonForRAG(lesson) as call number n of caller p: the
\* "already processed" check.
CheckExisting(p, l, n) ==
    LET c == [IdleCall EXCEPT !.lesson = l, !.no = n,
                !.raced = \E q \in Callers \ {p} :
                              InFlight(q) /\ call[q].lesson = l,
                !.retry = /\ call[p].result = "skipped"
                          /\ call[p].lesson = l
                          /\ call[p].dbFail = "none",
                !.afterEmbedFail = /\ call[p].result = "threw"
                                   /\ call[p].lesson = l
                                   /\ call[p].embedFail # 0]
    IN  /\ call' = [call EXCEPT ![p] =
                     IF TranscriptRows(l) # {} THEN Finish(p, c, "already")
                     ELSE [c EXCEPT !.pc = "download"]]
        /\ overlapped' = IF c.raced THEN overlapped \cup {l} ELSE overlapped

\* downloadYouTubeAudio that records an empty transcript for the lesson when
\* the download fails.
DownloadYouTubeAudio_Marker(p) ==
    LET c == call[p]
        v == lessonVideo[c.lesson]
    IN  /\ c.pc = "download"
        /\ \E o \in {"ok", "error", "empty"} :
             /\ files' = IF o = "error" THEN files
                         ELSE [files EXCEPT ![v] =
                                 [by |-> c.no, full |-> (o = "ok")]]
             /\ videoTranscripts' =
                  IF o = "ok" THEN videoTranscripts
                  ELSE videoTranscripts \cup
                         {[id |-> c.no, lessonId |-> c.lesson,
                           transcript |-> <<"">>, source |-> "whisper_asr",
                           language |-> "en"]}
             /\ call' = [call EXCEPT ![p] =
                  IF o = "ok"
                  THEN [c EXCEPT !.pc = "transcribe", !.audioPath = v,
                                 !.dl = o]
                  ELSE Finish(p, [c EXCEPT !.dl = o], "skipped")]
        /\ UNCHANGED <<geminiKey, lessonVideo, textChunks, nreq, overlapped>>
        /\ UNCHANGED <<batchVars, pureVars>>

\* downloadYouTubeAudio(videoId): yt-dlp writes temp/<videoId>.mp3.
DownloadYouTubeAudio(p) ==
    LET c == call[p]
        v == lessonVideo[c.lesson]
    IN  /\ c.pc = "download"
        /\ \E o \in {"ok", "error", "empty"} :
             /\ files' = IF o = "error" THEN files
                         ELSE [files EXCEPT ![v] =
                                 [by |-> c.no, full |-> (o = "ok")]]
             /\ call' = [call EXCEPT ![p] =
                  IF o = "ok"
                  THEN [c EXCEPT !.pc = "transcribe", !.audioPath = v,
                                 !.dl = o]
                  ELSE Finish(p, [c EXCEPT !.dl = o], "skipped")]
        /\ UNCHANGED <<geminiKey, lessonVideo, videoTranscripts, textChunks,
                       nreq, overlapped>>
        /\ UNCHANGED <<batchVars, pureVars>>

\* transcribeWithWhisper(audioPath): the subprocess reads the audio file.
\* Without a readable file it cannot print a transcript ("missing": exit
\* code, spawn error or empty output, all of which give null).
TranscribeWithWhisper(p) ==
    LET c == call[p]
        v == c.audioPath
        readable == files[v].by # 0 /\ files[v].full
    IN  /\ c.pc = "transcribe"
        /\ \E o \in {"ok", "exit", "spawn", "empty", "missing"} :
             /\ o = "missing" <=> ~readable
             /\ call' = [call EXCEPT ![p] =
                  IF o = "ok"
                  THEN [c EXCEPT !.pc = "cleanup", !.whisper = o,
                                 !.transcript = SpokenWords(v)]
                  ELSE Finish(p, [c EXCEPT !.whisper = o], "skipped")]
        /\ UNCHANGED <<geminiKey, lessonVideo, files, videoTranscripts,
                       textChunks, nreq, overlapped>>
        /\ UNCHANGED <<batchVars, pureVars>>

\* cleanupFile(audioPath): unlink, errors swallowed.
CleanupFile(p) ==
    LET c == call[p]
    IN  /\ c.pc = "cleanup"
        /\ files' = [files EXCEPT ![c.audioPath] = NoFile]
        /\ call' = [call EXCEPT ![p] = [c EXCEPT !.pc = "save"]]
        /\ UNCHANGED <<geminiKey, lessonVideo, videoTranscripts, textChunks,
                       nreq, overlapped>>
        /\ UNCHANGED <<batchVars, pureVars>>

\* storage.createVideoTranscript inside the try block of
\* getVideoTranscript: a failed insert is caught and null is returned.
CreateVideoTranscript(p) ==
    LET c == call[p]
    IN  /\ c.pc = "save"
        /\ \/ /\ videoTranscripts' = videoTranscripts \cup
                   {[id |-> c.no, lessonId |-> c.lesson,
                     transcript |-> c.transcript, source |-> "whisper_asr",
                     language |-> "en"]}
              /\ call' = [call EXCEPT ![p] = [c EXCEPT !.pc = "fetch"]]
           \/ /\ videoTranscripts' = videoTranscripts
              /\ call' = [call EXCEPT ![p] =
                   Finish(p, [c EXCEPT !.dbFail = "transcript"], "skipped")]
        /\ UNCHANGED <<geminiKey, lessonVideo, files, textChunks, nreq,
                       overlapped>>
        /\ UNCHANGED <<batchVars, pureVars>>

\* The record is read back, then the transcript is chunked (synchronous).
FetchRecordAndChunk(p) ==
    LET c == call[p]
        rows == TranscriptRows(c.lesson)
    IN  /\ c.pc = "fetch"
        /\ IF rows = {}
           THEN call' = [call EXCEPT ![p] = Finish(p, c, "norecord")]
           ELSE \E r \in rows :
                  call' = [call EXCEPT ![p] =
                    [c EXCEPT !.pc = "embed", !.recId = r.id,
                              !.chunks = chunkTranscript(c.transcript,
                                   DefaultChunkSize, DefaultOverlap)]]
        /\ UNCHANGED <<geminiKey, lessonVideo, files, videoTranscripts,
                       textChunks, nreq, overlapped>>
        /\ UNCHANGED <<batchVars, pureVars>>

\* generateEmbeddings(chunkTexts); an error leaves processLessonForRAG.
GenerateEmbeddings(p) ==
    LET c == call[p]
        chunkTexts == [k \in 1..Len(c.chunks) |-> c.chunks[k].content]
    IN  /\ c.pc = "embed"
        /\ \E failAt \in 0..Len(chunkTexts) :
             LET r == generateEmbeddings(geminiKey, chunkTexts, failAt)
                 d == [c EXCEPT !.embedCalls = 1,
                         !.embedFail = IF ~geminiKey THEN -1 ELSE failAt]
             IN  call' = [call EXCEPT ![p] =
                   IF r.threw THEN Finish(p, d, "threw")
                   ELSE IF Len(c.chunks) = 0 THEN Finish(p, d, "ok")
                   ELSE [d EXCEPT !.pc = "persist", !.embeddings = r.value,
                                  !.i = 0]]
        /\ UNCHANGED <<geminiKey, lessonVideo, files, videoTranscripts,
                       textChunks, nreq, overlapped>>
        /\ UNCHANGED <<batchVars, pureVars>>

\* CreateTextChunk that numbers the chunks from 1: chunkIndex i + 1.
CreateTextChunk_OneBased(p) ==
    LET c == call[p]
        k == c.i + 1
        row == [id |-> <<c.no, c.i>>, lessonId |-> c.lesson,
                transcriptId |-> c.recId, chunkIndex |-> k,
                content |-> c.chunks[k].content,
                startTime |-> c.chunks[k].startTime,
                endTime |-> c.chunks[k].endTime,
                tokenCount |-> Len(c.chunks[k].content),
                embedding |-> IF k <= Len(c.embeddings)
                              THEN c.embeddings[k] ELSE NoVector]
    IN  /\ c.pc = "persist"
        /\ \/ /\ textChunks' = textChunks \cup {row}
              /\ call' = [call EXCEPT ![p] =
                   LET d == [c EXCEPT !.i = k, !.wrote = c.wrote + 1]
                   IN  IF k < Len(c.chunks) THEN d ELSE Finish(p, d, "ok")]
           \/ /\ textChunks' = textChunks
              /\ call' = [call EXCEPT ![p] =
                   Finish(p, [c EXCEPT !.dbFail = "chunk"], "threw")]
        /\ UNCHANGED <<geminiKey, lessonVideo, files, videoTranscripts, nreq,
                       overlapped>>
        /\ UNCHANGED <<batchVars, pureVars>>

\* One iteration of the loop that saves the chunks: storage.createTextChunk
\* for chunks[i]; an error leaves processLessonForRAG.
CreateTextChunk(p) ==
    LET c == call[p]
        k == c.i + 1
        row == [id |-> <<c.no, c.i>>, lessonId |-> c.lesson,
                transcriptId |-> c.recId, chunkIndex |-> c.i,
                content |-> c.chunks[k].content,
                startTime |-> c.chunks[k].startTime,
                endTime |-> c.chunks[k].endTime,
                tokenCount |-> Len(c.chunks[k].content),
                embedding |-> IF k <= Len(c.embeddings)
                              THEN c.embeddings[k] ELSE NoVector]
    IN  /\ c.pc = "persist"
        /\ \/ /\ textChunks' = textChunks \cup {row}
              /\ call' = [call EXCEPT ![p] =
                   LET d == [c EXCEPT !.i = k, !.wrote = c.wrote + 1]
                   IN  IF k < Len(c.chunks) THEN d ELSE Finish(p, d, "ok")]
           \/ /\ textChunks' = textChunks
              /\ call' = [call EXCEPT ![p] =
                   Finish(p, [c EXCEPT !.dbFail = "chunk"], "threw")]
        /\ UNCHANGED <<geminiKey, lessonVideo, files, videoTranscripts, nreq,
                       overlapped>>
        /\ UNCHANGED <<batchVars, pureVars>>

\* POST /api/rag/process-lesson/:lessonId calls processLessonForRAG.  The
\* request handlers are interchangeable: the second one is used only for a
\* request that arrives while the first one is busy.
ProcessLessonRoute(p, l) ==
    /\ p \in ReqCallers
    /\ ~InFlight(p)
    /\ p = "reqB" => InFlight("reqA")
    /\ nreq < MaxRequests
    /\ nreq' = nreq + 1
    /\ CheckExisting(p, l, nreq + 1)
    /\ UNCHANGED <<geminiKey, lessonVideo, files, videoTranscripts,
                   textChunks>>
    /\ UNCHANGED <<batchVars, pureVars>>

\* ------------------------------------------- processAllLessonsForRAG steps
\* try { await processLessonForRAG(lesson); processedLessons++ } catch {..}
\* : what the loop does with the outcome of one lesson.
AfterLesson_Abort(res) ==
    [continue |-> (res # "threw"), processed |-> (res # "threw")]

AfterLesson(res) ==
    [continue |-> TRUE, processed |-> (res # "threw")]

BatchBegin ==
    /\ batchPc = "idle"
    /\ batchPc' = "running"
    /\ UNCHANGED <<batchIdx, totalLessons, processedLessons, attempted>>
    /\ UNCHANGED <<ingestVars, pureVars>>

BatchStartLesson ==
    /\ batchPc = "running"
    /\ call["batch"].pc = "idle"
    /\ batchIdx <= Len(BatchOrder)
    /\ totalLessons' = totalLessons + 1
    /\ attempted' = Append(attempted, BatchOrder[batchIdx])
    /\ CheckExisting("batch", BatchOrder[batchIdx], MaxRequests + batchIdx)
    /\ UNCHANGED <<batchPc, batchIdx, processedLessons>>
    /\ UNCHANGED <<geminiKey, lessonVideo, files, videoTranscripts,
                   textChunks, nreq, pureVars>>

BatchCollect ==
    LET a == AfterLesson(call["batch"].result)
    IN  /\ batchPc = "running"
        /\ call["batch"].pc = "done"
        /\ processedLessons' = processedLessons + (IF a.processed THEN 1 ELSE 0)
        /\ batchIdx' = batchIdx + 1
        /\ batchPc' = IF a.continue THEN "running" ELSE "done"
        /\ call' = [call EXCEPT !["batch"] = IdleCall]
        /\ UNCHANGED <<totalLessons, attempted>>
        /\ UNCHANGED <<geminiKey, lessonVideo, files, videoTranscripts,
                       textChunks, nreq, overlapped, pureVars>>

BatchFinish ==
    /\ batchPc = "running"
    /\ call["batch"].pc = "idle"
    /\ batchIdx > Len(BatchOrder)
    /\ batchPc' = "done"
    /\ UNCHANGED <<batchIdx, totalLessons, processedLessons, attempted>>
    /\ UNCHANGED <<ingestVars, pureVars>>

BatchNext ==
    \/ BatchBegin
    \/ BatchStartLesson
    \/ DownloadYouTubeAudio("batch")
    \/ TranscribeWithWhisper("batch")
    \/ CleanupFile("batch")
    \/ CreateVideoTranscript("batch")
    \/ FetchRecordAndChunk("batch")
    \/ GenerateEmbeddings("batch")
    \/ CreateTextChunk("batch")
    \/ BatchCollect
    \/ BatchFinish

Next ==
    \/ \E p \in ReqCallers, l \in Lessons : ProcessLessonRoute(p, l)
    \/ \E p \in ReqCallers : DownloadYouTubeAudio(p)
    \/ \E p \in ReqCallers : TranscribeWithWhisper(p)
    \/ \E p \in ReqCallers : CleanupFile(p)
    \/ \E p \in ReqCallers : CreateVideoTranscript(p)
    \/ \E p \in ReqCallers : FetchRecordAndChunk(p)
    \/ \E p \in ReqCallers : GenerateEmbeddings(p)
    \/ \E p \in ReqCallers : CreateTextChunk(p)

Spec == Init /\ [][Next]_vars

\* The route's calls scheduled fairly: every awaited step of a call in
\* progress is taken, and requests keep coming while the bound allows.
FairSpec == Spec /\ WF_vars(Next)

\* The batch job alone, scheduled fairly (the script awaits every step).
BatchSpec == Init /\ [][BatchNext]_vars /\ WF_vars(BatchNext)

\* ------------------------------------------------ chunkTranscript, alone
Tokens == {"", "a", "b"}

\* The documented example call: a nine-word transcript split on ' ',
\* chunked with chunkSize 5 and overlap 2.
FoxWords == <<"the", "quick", "brown", "fox", "jumps", "over", "the", "lazy", "dog">>

ChunkInit ==
    /\ geminiKey = TRUE
    /\ lessonVideo = [l \in Lessons |-> "vidA"]
    /\ files = [v \in Videos |-> NoFile]
    /\ videoTranscripts = {}
    /\ textChunks = {}
    /\ call = [p \in Callers |-> IdleCall]
    /\ nreq = 0
    /\ overlapped = {}
    /\ BatchIdle
    /\ QueryIdle
    /\ \/ /\ cwords \in UNION {[1..n -> Tokens] : n \in 1..MaxWords}
          /\ csize \in 1..MaxSize
          /\ coverlap \in 0..(MaxSize + 1)
       \/ /\ cwords = FoxWords
          /\ csize = 5
          /\ coverlap = 2
    /\ ci = 0
    /\ cchunks = << >>
    /\ cpc = "loop"

\* ChunkIterate that advances by chunkSize, ignoring the overlap.
ChunkIterate_NoOverlap ==
    /\ cpc = "loop"
    /\ ci < Len(cwords)
    /\ Len(cchunks) < MaxChunks
    /\ cchunks' = Append(cchunks, ChunkAt(cwords, ci, csize))
    /\ ci' = ci + csize
    /\ UNCHANGED <<cwords, csize, coverlap, cpc>>
    /\ UNCHANGED <<ingestVars, batchVars, queryVars>>

\* One iteration of for (let i = 0; i < words.length; i += chunkSize - overlap)
ChunkIterate ==
    /\ cpc = "loop"
    /\ ci < Len(cwords)
    /\ Len(cchunks) < MaxChunks
    /\ cchunks' = Append(cchunks, ChunkAt(cwords, ci, csize))
    /\ ci' = ci + (csize - coverlap)
    /\ UNCHANGED <<cwords, csize, coverlap, cpc>>
    /\ UNCHANGED <<ingestVars, batchVars, queryVars>>

\* The loop condition fails: return chunks.
ChunkReturn ==
    /\ cpc = "loop"
    /\ ~(ci < Len(cwords))
    /\ cpc' = "returned"
    /\ UNCHANGED <<cwords, csize, coverlap, ci, cchunks>>
    /\ UNCHANGED <<ingestVars, batchVars, queryVars>>

ChunkNext == ChunkIterate \/ ChunkReturn

ChunkSpec == ChunkInit /\ [][ChunkNext]_vars

\* ================================================================ claims
\* The chunk rows of a lesson, and the rows a call wrote.
ChunkRows(l) == {r \in textChunks : r.lessonId = l}
RowsBy(n) == {r \in textChunks : r.id[1] = n}
Done(p) == call[p].pc = "done"

\* All chunk rows of lesson l belong to one transcript record and no
\* ordinal occurs twice.
OneChunkSet(l) ==
    \A r1, r2 \in ChunkRows(l) :
        /\ r1.transcriptId = r2.transcriptId
        /\ r1.chunkIndex = r2.chunkIndex => r1 = r2

\* C1: ingest calls made one after the other on a lesson leave one
\* transcript and one chunk set: a call that finds a transcript returns at
\* once, having downloaded, transcribed, embedded and written nothing.
C1_SecondIngestIsNoOp ==
    /\ \A l \in Lessons \ overlapped :
         /\ Cardinality(TranscriptRows(l)) <= 1
         /\ OneChunkSet(l)
         /\ \A r \in ChunkRows(l) :
              \E t \in TranscriptRows(l) : r.transcriptId = t.id
    /\ \A p \in Callers :
         call[p].result = "already" =>
            /\ TranscriptRows(call[p].lesson) # {}
            /\ call[p].dl = "none" /\ call[p].whisper = "none"
            /\ call[p].embedCalls = 0 /\ call[p].wrote = 0
            /\ RowsBy(call[p].no) = {}
            /\ \A t \in videoTranscripts : t.id # call[p].no

\* A second call returned at once on a lesson whose first call stored a
\* transcript and its three chunks.
C1_Witness ==
    \E p \in Callers :
        /\ call[p].result = "already"
        /\ call[p].lesson \notin overlapped
        /\ Cardinality(TranscriptRows(call[p].lesson)) = 1
        /\ Cardinality(ChunkRows(call[p].lesson)) = 3

\* C2: at most one transcript record per lesson in every reachable state,
\* overlapping ingest calls for the same lesson included.
C2_AtMostOneTranscriptPerLesson ==
    \A l \in Lessons : Cardinality(TranscriptRows(l)) <= 1

\* C3: a call whose embedding failed (provider unconfigured, or an error on
\* any text of the batch) has persisted no chunk, and a call writes chunks
\* only when it holds one vector for every chunk.
C3_NoChunkWithoutAllVectors ==
    \A p \in Callers :
        /\ call[p].embedFail # 0 =>
              call[p].wrote = 0 /\ RowsBy(call[p].no) = {}
        /\ call[p].pc = "persist" =>
              Len(call[p].embeddings) = Len(call[p].chunks)
        /\ RowsBy(call[p].no) # {} => call[p].embedCalls = 1

\* An embedding error on the middle text of a batch of three.
C3_Witness ==
    \E p \in Callers :
        /\ Done(p) /\ call[p].result = "threw"
        /\ call[p].embedFail = 2
        /\ Len(chunkTranscript(SpokenWords(lessonVideo[call[p].lesson]),
                               DefaultChunkSize, DefaultOverlap)) = 3
        /\ RowsBy(call[p].no) = {}

\* C4: a database write failure during ingest (transcript insert or chunk
\* insert) is propagated to the caller of ingest.
C4_WriteFailurePropagated ==
    \A p \in Callers :
        (Done(p) /\ call[p].dbFail # "none") => call[p].result = "threw"

\* C5: once acquisition has returned, the audio file the download created
\* no longer exists, whatever the transcription step did.
C5_TempFileDeleted ==
    \A p \in Callers :
        (/\ call[p].pc \in {"fetch", "embed", "persist", "done"}
         /\ call[p].dl = "ok")
        => files[call[p].audioPath].by # call[p].no

\* getVideoTranscript returned null because no source gave a transcript /
\* returned a transcript.
AcquisitionFailed(c) ==
    \/ c.dl \in {"error", "empty"}
    \/ c.whisper \in {"exit", "spawn", "empty", "missing"}
Acquired(c) == c.whisper = "ok" /\ c.dbFail # "transcript"

\* The call wrote its transcript record and one chunk row per chunk of it.
PersistedAll(c) ==
    /\ \E t \in videoTranscripts : t.id = c.no /\ t.lessonId = c.lesson
    /\ {r.chunkIndex : r \in RowsBy(c.no)} =
          0..(Len(chunkTranscript(SpokenWords(lessonVideo[c.lesson]),
                                  DefaultChunkSize, DefaultOverlap)) - 1)

IsPrefix(s, t) == Len(s) <= Len(t) /\ s = SubSeq(t, 1, Len(s))

\* C7: the batch job attempts every lesson exactly once, in order, whatever
\* the outcome of the earlier lessons, and terminates.
C7_BatchAttemptsEveryLesson ==
    /\ [](/\ IsPrefix(attempted, BatchOrder)
          /\ batchPc = "done" => attempted = BatchOrder)
    /\ <>(batchPc = "done")

\* The run has ended, and a lesson's ingest had thrown.
C7_Witness ==
    /\ batchPc = "done"
    /\ processedLessons < totalLessons
    /\ attempted = BatchOrder

\* Every external operation of the call went well; "missing" is not a
\* failure of the environment but the audio file having gone.
BenignEnv(c) ==
    /\ c.dl = "ok" /\ c.whisper \in {"ok", "missing"}
    /\ c.dbFail = "none" /\ c.embedFail = 0

\* C8: ingest calls for two distinct lessons do not influence each other:
\* with every external operation succeeding, both end as they do when run
\* one after the other (transcript and chunks persisted), also when the two
\* lessons reference the same video.
C8_DistinctLessonsIndependent ==
    \A p, q \in Callers :
        (/\ p # q /\ Done(p) /\ Done(q)
         /\ call[p].lesson # call[q].lesson
         /\ ~call[p].raced /\ ~call[q].raced
         /\ BenignEnv(call[p]) /\ BenignEnv(call[q]))
        => /\ call[p].result = "ok" /\ PersistedAll(call[p])
           /\ call[q].result = "ok" /\ PersistedAll(call[q])

Questions == {"q", ""}
SomeChunks ==
    {<< >>,
     <<[lessonId |-> 1, startTime |-> 0, content |-> <<"a", "b">>]>>}
Replies == {[threw |-> TRUE, text |-> ""], [threw |-> FALSE, text |-> "x"]}

\* C9: with no API credentials configured no stage raises: every ingest
\* call returns normally and answer returns the placeholder message.
C9_NoCredentialsNeverRaises ==
    ~geminiKey =>
        /\ \A p \in Callers : call[p].result # "threw"
        /\ \A q \in Questions, ch \in SomeChunks, r \in Replies :
             generateRAGResponse(geminiKey, q, "t", "d", ch, r) =
                 [answer |-> NotConfiguredMsg, sources |-> << >>]

\* C10: chunkTranscript called with overlap >= chunkSize is rejected: it
\* produces no chunk and does not return a chunk sequence.
C10_NonPositiveStepRejected ==
    coverlap >= csize => cchunks = << >> /\ cpc # "returned"

\* ------------------------------------------- generateEmbeddings, stepwise
\* Texts handed to generateEmbeddings, as word sequences.
EmbedTexts == {<<1>>, <<2>>, <<1, 2>>}

\* No ingest call has run: the tables and the temp directory are empty.
IngestIdle ==
    /\ lessonVideo = [l \in Lessons |-> "vidA"]
    /\ files = [v \in Videos |-> NoFile]
    /\ videoTranscripts = {}
    /\ call = [p \in Callers |-> IdleCall]
    /\ nreq = 0
    /\ overlapped = {}

\* A call generateEmbeddings(texts); efailAt = k > 0: the embedContent
\* request for texts[k] will fail.
EmbedInit ==
    /\ geminiKey \in BOOLEAN
    /\ textChunks = {}
    /\ IngestIdle /\ BatchIdle /\ ChunkIdle
    /\ SearchIdle /\ AnswerIdle /\ ChatIdle
    /\ CaptionIdle
    /\ etexts \in UNION {[1..n -> EmbedTexts] : n \in 0..MaxTexts}
    /\ efailAt \in 0..Len(etexts)
    /\ eembeddings = << >>
    /\ epc = "start"

\* if (!this.embeddingModel) throw new Error(...)
EmbedCheckModel ==
    /\ epc = "start"
    /\ epc' = IF geminiKey THEN "loop" ELSE "threw"
    /\ UNCHANGED <<etexts, efailAt, eembeddings>>
    /\ UNCHANGED <<captionVars, ingestVars, batchVars, chunkVars,
                   searchVars, answerVars,
                   chatVars>>

\* EmbedOne whose catch block returns the vectors collected so far.
EmbedOne_Swallow ==
    LET k == Len(eembeddings) + 1
    IN  /\ epc = "loop"
        /\ k <= Len(etexts)
        /\ IF efailAt = k
           THEN epc' = "returned" /\ eembeddings' = eembeddings
           ELSE /\ epc' = epc
                /\ eembeddings' = Append(eembeddings, EmbeddingOf(etexts[k]))
        /\ UNCHANGED <<etexts, efailAt>>
        /\ UNCHANGED <<captionVars, ingestVars, batchVars, chunkVars, searchVars,
                       answerVars, chatVars>>

\* One iteration of for (const text of texts): embedContent(text), then
\* embeddings.push(result.embedding.values); a failing request is caught
\* and rethrown, the array collected so far is dropped.
EmbedOne ==
    LET k == Len(eembeddings) + 1
    IN  /\ epc = "loop"
        /\ k <= Len(etexts)
        /\ IF efailAt = k
           THEN epc' = "threw" /\ eembeddings' = << >>
           ELSE /\ epc' = epc
                /\ eembeddings' = Append(eembeddings, EmbeddingOf(etexts[k]))
        /\ UNCHANGED <<etexts, efailAt>>
        /\ UNCHANGED <<captionVars, ingestVars, batchVars, chunkVars, searchVars,
                       answerVars, chatVars>>

\* The loop is over: return embeddings.
EmbedReturn ==
    /\ epc = "loop"
    /\ Len(eembeddings) = Len(etexts)
    /\ epc' = "returned"
    /\ UNCHANGED <<etexts, efailAt, eembeddings>>
    /\ UNCHANGED <<captionVars, ingestVars, batchVars, chunkVars,
                   searchVars, answerVars,
                   chatVars>>

EmbedNext == EmbedCheckModel \/ EmbedOne \/ EmbedReturn

EmbedSpec == EmbedInit /\ [][EmbedNext]_vars

\* ------------------------------------------------------ similarity search
NoLesson == 0             \* lessonId undefined
DefaultLimit == 5          \* limit: number = 5
DefaultThreshold == 30     \* similarityThreshold: number = 0.3, in hundredths

\* Tuples of integers in dictionary order.
LexLess(a, b) ==
    \E i \in 1..Len(a) : a[i] < b[i] /\ \A j \in 1..(i - 1) : a[j] = b[j]

\* The rows of a set of [key, row] pairs in increasing key order.
RECURSIVE SortByKey(_)
SortByKey(S) ==
    IF S = {} THEN << >>
    ELSE LET m == CHOOSE x \in S : \A y \in S \ {x} : LexLess(x.key, y.key)
         IN  <<m.row>> \o SortByKey(S \ {m})

\* array.slice(0, n) and SQL LIMIT n.
Take(seq, n) == SubSeq(seq, 1, Min(n, Len(seq)))

\* Similarity of a query vector and a chunk vector, in hundredths: a
\* function of the two vectors, largest for vectors that agree.
Similarity(q, v) ==
    (IF q[2] = v[2] THEN 100 ELSE 50) -
        10 * (IF q[1] > v[1] THEN q[1] - v[1] ELSE v[1] - q[1])

\* storage.searchTextChunksByVector(queryEmbedding, lessonId, limit,
\* similarityThreshold): the chunks of the lesson (of every lesson when
\* lessonId is undefined) that score at least the threshold, best first,
\* equal scores by ascending chunk ordinal, then in table order; the first
\* limit of them.
searchTextChunksByVector(queryEmbedding, lessonId, limit, similarityThreshold) ==
    LET candidates ==
            {r \in textChunks :
                /\ lessonId # NoLesson => r.lessonId = lessonId
                /\ r.embedding # NoVector
                /\ Similarity(queryEmbedding, r.embedding) >= similarityThreshold}
        keyed == {[key |-> <<0 - Similarity(queryEmbedding, r.embedding),
                            r.chunkIndex, r.id[1], r.id[2]>>,
                   row |-> r] : r \in candidates}
    IN  Take(SortByKey(keyed), limit)

\* semanticSearch that leaves the threshold out of the storage call.
semanticSearch_NoThreshold(configured, query, lessonId, limit, similarityThreshold, failAt) ==
    LET queryEmbedding == generateEmbeddings(configured, <<query>>, failAt)
    IN  IF queryEmbedding.threw \/ Len(queryEmbedding.value) = 0
        THEN [threw |-> TRUE, value |-> << >>]
        ELSE [threw |-> FALSE,
              value |-> searchTextChunksByVector(queryEmbedding.value[1],
                            lessonId, limit, 0)]

\* semanticSearch(query, lessonId, limit, similarityThreshold): embed the
\* query, then hand vector, scope, limit and threshold to the storage.
semanticSearch(configured, query, lessonId, limit, similarityThreshold, failAt) ==
    LET queryEmbedding == generateEmbeddings(configured, <<query>>, failAt)
    IN  IF queryEmbedding.threw \/ Len(queryEmbedding.value) = 0
        THEN [threw |-> TRUE, value |-> << >>]
        ELSE [threw |-> FALSE,
              value |-> searchTextChunksByVector(queryEmbedding.value[1],
                            lessonId, limit, similarityThreshold)]

\* getTextChunksByLesson with the ordinals in descending order.
getTextChunksByLesson_Desc(lessonId) ==
    SortByKey({[key |-> <<0 - r.chunkIndex, r.id[1], r.id[2]>>, row |-> r] :
                  r \in {x \in textChunks : x.lessonId = lessonId}})

\* storage.getTextChunksByLesson(lessonId): the lesson's rows ordered by
\* chunk_index (rows with the same ordinal in table order).
getTextChunksByLesson(lessonId) ==
    SortByKey({[key |-> <<r.chunkIndex, r.id[1], r.id[2]>>, row |-> r] :
                  r \in {x \in textChunks : x.lessonId = lessonId}})

\* content.includes(query) for texts of one-character, non-empty words:
\* the query's words occur in the content next to each other.
Includes(content, query) ==
    \E start \in 0..(Len(content) - Len(query)) :
        SubSeq(content, start + 1, start + Len(query)) = query

\* The second RAGService's semanticSearch(query, lessonId, limit): the
\* lesson's chunks ("" when lessonId is undefined, which no row has),
\* scored 1 when the content contains the query and 0 otherwise, sorted
\* by score descending with Array.prototype.sort (stable), first limit.
\* The words are lower-case letters, which toLowerCase leaves as they are.
semanticSearchSubstring(query, lessonId, limit) ==
    LET chunks == IF lessonId = NoLesson THEN << >>
                  ELSE getTextChunksByLesson(lessonId)
        scored == [k \in 1..Len(chunks) |->
                     [chunk |-> chunks[k],
                      score |-> IF Includes(chunks[k].content, query)
                                THEN 1 ELSE 0]]
        keyed == {[key |-> <<0 - scored[k].score, k>>, row |-> scored[k]] :
                     k \in 1..Len(scored)}
    IN  Take(SortByKey(keyed), limit)

\* The texts of the chunks a store may hold: for the query "a" they score
\* 0.9, 0.5, 0.3 and 0.2.
StoredTexts ==
    <<<<"a", "b">>, <<"b">>, <<"b", "a", "a">>, <<"b", "b", "b", "b">>>>

\* The row processLessonForRAG writes for ordinal idx of lesson l when the
\* chunk's text is StoredTexts[kind].
StoredChunk(l, idx, kind) ==
    [id |-> <<l, idx>>, lessonId |-> l, transcriptId |-> l,
     chunkIndex |-> idx, content |-> StoredTexts[kind],
     startTime |-> 100 * idx, endTime |-> 100 * idx + 100,
     tokenCount |-> Len(StoredTexts[kind]),
     embedding |-> EmbeddingOf(StoredTexts[kind])]

StoreKeys == Lessons \X {0, 1}

\* The contents of table text_chunks: at most MaxStore rows, no two for the
\* same ordinal of the same lesson.
SearchStores ==
    UNION {{ {StoredChunk(k[1], k[2], f[k]) : k \in K} : f \in [K -> 1..Len(StoredTexts)] } :
              K \in {X \in SUBSET StoreKeys : Cardinality(X) <= MaxStore}}

\* The transcript rows the chunks of a store belong to.
StoredTranscripts(store) ==
    {[id |-> r.transcriptId, lessonId |-> r.lessonId,
      transcript |-> <<"a", "b">>, source |-> "whisper_asr",
      language |-> "en"] : r \in store}

SearchInit ==
    /\ geminiKey \in BOOLEAN
    /\ lessonVideo = [l \in Lessons |-> "vidA"]
    /\ files = [v \in Videos |-> NoFile]
    /\ textChunks \in SearchStores
    /\ videoTranscripts = StoredTranscripts(textChunks)
    /\ call = [p \in Callers |-> IdleCall]
    /\ nreq = 0
    /\ overlapped = {}
    /\ BatchIdle /\ ChunkIdle /\ EmbedIdle /\ AnswerIdle /\ ChatIdle
    /\ CaptionIdle
    /\ squery = <<"a">>
    /\ slessonId \in {NoLesson} \cup Lessons
    /\ slimit \in {1, DefaultLimit}
    /\ sthreshold \in {DefaultThreshold, 2 * DefaultThreshold}
    /\ scalls = << >>

\* A call of the first RAGService's semanticSearch; failAt = 1: the
\* embedContent request for the query fails.
SemanticSearch ==
    /\ Len(scalls) < 2
    /\ \E failAt \in 0..1 :
         LET r == semanticSearch(geminiKey, squery, slessonId, slimit,
                                 sthreshold, failAt)
         IN  scalls' = Append(scalls, [impl |-> "vector", failAt |-> failAt,
                                       threw |-> r.threw, value |-> r.value])
    /\ UNCHANGED <<squery, slessonId, slimit, sthreshold>>
    /\ UNCHANGED <<captionVars, ingestVars, batchVars, chunkVars, embedVars, answerVars,
                   chatVars>>

\* A call of the second RAGService's semanticSearch.
SemanticSearchSubstring ==
    /\ Len(scalls) < 2
    /\ scalls' = Append(scalls,
                   [impl |-> "substring", failAt |-> 0, threw |-> FALSE,
                    value |-> semanticSearchSubstring(squery, slessonId,
                                                      slimit)])
    /\ UNCHANGED <<squery, slessonId, slimit, sthreshold>>
    /\ UNCHANGED <<captionVars, ingestVars, batchVars, chunkVars, embedVars, answerVars,
                   chatVars>>

SearchNext == SemanticSearch \/ SemanticSearchSubstring

SearchSpec == SearchInit /\ [][SearchNext]_vars

\* ------------------------------------------------ POST /api/chat/:courseId
\* Every course has one section with one lesson; the course of lesson l
\* has id l.  Id 0 is the id of no course.
CourseOf(l) == l
CourseLessons(courseId) == {l \in Lessons : CourseOf(l) = courseId}
CourseTitle(courseId) == "course " \o ToString(courseId)

\* What chat.sendMessage does: it throws an error with a message, or
\* returns a text, maybe "".
ModelReplies ==
    {[threw |-> TRUE, text |-> "503 Service Unavailable"],
     [threw |-> FALSE, text |-> "x"], [threw |-> FALSE, text |-> ""]}

\* An authenticated user posts the message "a" to a course's chat.
ChatInit ==
    /\ geminiKey \in BOOLEAN
    /\ lessonVideo = [l \in Lessons |-> "vidA"]
    /\ files = [v \in Videos |-> NoFile]
    /\ textChunks \in SearchStores
    /\ videoTranscripts = StoredTranscripts(textChunks)
    /\ call = [p \in Callers |-> IdleCall]
    /\ nreq = 0
    /\ overlapped = {}
    /\ BatchIdle /\ ChunkIdle /\ EmbedIdle /\ SearchIdle /\ AnswerIdle
    /\ CaptionIdle
    /\ chatMessages = << >>
    /\ \E c \in 0..NumLessons :
         chat = [IdleChat EXCEPT !.pc = "saveUser", !.courseId = c,
                                 !.content = <<"a">>]

\* The message row storage.createChatMessage inserts.
ChatRow(role, content, sources) ==
    [id |-> Len(chatMessages) + 1, userId |-> "user",
     courseId |-> chat.courseId, role |-> role, content |-> content,
     sources |-> sources]

\* The handler's catch block: respond 500.
ChatFail ==
    chat' = [chat EXCEPT !.pc = "done", !.status = 500,
                         !.message = "Failed to send message"]

\* await storage.createChatMessage({... role: "user", content})
ChatSaveUserMessage ==
    /\ chat.pc = "saveUser"
    /\ \/ /\ chatMessages' =
                Append(chatMessages, ChatRow("user", chat.content, << >>))
          /\ chat' = [chat EXCEPT !.pc = "getCourse"]
       \/ /\ chatMessages' = chatMessages
          /\ ChatFail
    /\ UNCHANGED <<captionVars, ingestVars, batchVars, chunkVars, embedVars, searchVars,
                   answerVars>>

\* storage.getCourse, 404 when there is none, then getSectionsByCourse and
\* the course's lesson ids.
ChatGetCourse ==
    /\ chat.pc = "getCourse"
    /\ \/ chat' = IF chat.courseId \in Lessons
                  THEN [chat EXCEPT !.pc = "search",
                          !.lessonIds = CourseLessons(chat.courseId)]
                  ELSE [chat EXCEPT !.pc = "done", !.status = 404,
                                    !.message = "Course not found"]
       \/ ChatFail
    /\ UNCHANGED chatMessages
    /\ UNCHANGED <<captionVars, ingestVars, batchVars, chunkVars, embedVars, searchVars,
                   answerVars>>

\* try { relevantChunks = await ragService.semanticSearch(content,
\* undefined, 5) } catch { /* continue with empty chunks */ }
ChatSearch ==
    /\ chat.pc = "search"
    /\ \E failAt \in 0..1 :
         LET r == semanticSearch(geminiKey, chat.content, NoLesson,
                                 DefaultLimit, DefaultThreshold, failAt)
         IN  chat' = [chat EXCEPT !.pc = "answer",
                        !.relevantChunks = IF r.threw THEN << >>
                                           ELSE r.value]
    /\ UNCHANGED chatMessages
    /\ UNCHANGED <<captionVars, ingestVars, batchVars, chunkVars, embedVars, searchVars,
                   answerVars>>

\* ragService.generateRAGResponse(content, course.title,
\* course.description || "", relevantChunks)
ChatAnswer ==
    /\ chat.pc = "answer"
    /\ \E reply \in ModelReplies :
         LET r == generateRAGResponse(geminiKey, Join(chat.content),
                      CourseTitle(chat.courseId), "", chat.relevantChunks,
                      reply)
             called == CallsModel(geminiKey, chat.relevantChunks)
         IN  chat' = [chat EXCEPT !.pc = "saveAssistant",
                        !.called = called,
                        !.reply = IF called THEN reply ELSE chat.reply,
                        !.answer = r.answer, !.sources = r.sources]
    /\ UNCHANGED chatMessages
    /\ UNCHANGED <<captionVars, ingestVars, batchVars, chunkVars, embedVars, searchVars,
                   answerVars>>

\* storage.createChatMessage({... role: "assistant", content: answer,
\* sources}), then getChatMessages and the 200 response.
ChatSaveAssistantMessage ==
    /\ chat.pc = "saveAssistant"
    /\ \/ /\ chatMessages' =
                Append(chatMessages,
                       ChatRow("assistant", chat.answer, chat.sources))
          /\ chat' = [chat EXCEPT !.pc = "done", !.status = 200]
       \/ /\ chatMessages' = chatMessages
          /\ ChatFail
    /\ UNCHANGED <<captionVars, ingestVars, batchVars, chunkVars, embedVars, searchVars,
                   answerVars>>

ChatNext ==
    \/ ChatSaveUserMessage
    \/ ChatGetCourse
    \/ ChatSearch
    \/ ChatAnswer
    \/ ChatSaveAssistantMessage

ChatSpec == ChatInit /\ [][ChatNext]_vars

\* ---------------------------------------------- generateRAGResponse call
\* The chunks handed to generateRAGResponse as context.
ContextChunks ==
    {StoredChunk(l, idx, kind) : l \in Lessons, idx \in {0, 1}, kind \in {1, 4}}

\* Chunk texts around the snippet limit: twenty words of nine letters
\* are 199 characters; a letter more makes 200, two more 201.
NineLetters == "aaaaaaaaa"
Words199 == [k \in 1..20 |-> NineLetters]
LongTexts ==
    {Words199,
     [Words199 EXCEPT ![20] = NineLetters \o "b"],
     [Words199 EXCEPT ![20] = NineLetters \o "bc"],
     Words199 \o Words199}
LongChunks ==
    {[StoredChunk(1, 0, 1) EXCEPT !.content = t, !.tokenCount = Len(t),
                                  !.embedding = EmbeddingOf(t)] :
        t \in LongTexts}

\* The model answering with the very text of the empty-context message.
EchoReply(question) ==
    [threw |-> FALSE, text |-> NoInfoMsg(question, CourseTitle(1))]

\* A call generateRAGResponse(question, title, "", relevantChunks); areply
\* is what chat.sendMessage will do if it is reached.
AnswerInit ==
    /\ geminiKey \in BOOLEAN
    /\ textChunks = {}
    /\ IngestIdle /\ BatchIdle /\ ChunkIdle
    /\ EmbedIdle /\ SearchIdle /\ ChatIdle
    /\ CaptionIdle
    /\ aquestion \in {"a", ""}
    /\ achunks \in UNION {[1..n -> ContextChunks \cup LongChunks] :
                                n \in 0..MaxContext}
    /\ areply \in ModelReplies \cup {EchoReply(aquestion)}
    /\ aresult = [answer |-> "", sources |-> << >>]
    /\ apc = "start"
    /\ acalled = FALSE

\* The call runs and returns its { answer, sources }.
GenerateRAGResponse ==
    /\ apc = "start"
    /\ aresult' = generateRAGResponse(geminiKey, aquestion, CourseTitle(1),
                                      "", achunks, areply)
    /\ acalled' = CallsModel(geminiKey, achunks)
    /\ apc' = "returned"
    /\ UNCHANGED <<aquestion, achunks, areply>>
    /\ UNCHANGED <<captionVars, ingestVars, batchVars, chunkVars, embedVars, searchVars,
                   chatVars>>

AnswerNext == GenerateRAGResponse

AnswerSpec == AnswerInit /\ [][AnswerNext]_vars

\* ------------------------------------- getVideoTranscript, captions first
\* A language tag as its characters.
LangEn == <<"e", "n">>
LangEnUS == <<"e", "n", "-", "U", "S">>
LangFr == <<"f", "r">>
Languages == {LangEn, LangEnUS, LangFr}

\* String.prototype.startsWith
StartsWith(s, prefix) ==
    Len(s) >= Len(prefix) /\ SubSeq(s, 1, Len(prefix)) = prefix

\* The predicate handed to items.find: one test, exact or prefix.
IsEnglish(item) ==
    item.language = LangEn \/ StartsWith(item.language, LangEn)

\* items.find(IsEnglish): the position of the first item the predicate
\* accepts, 0 for undefined.
englishCaption(items) ==
    LET hits == {k \in 1..Len(items) : IsEnglish(items[k])}
    IN  IF hits = {} THEN 0
        ELSE CHOOSE k \in hits : \A j \in hits : k <= j

\* The SubRip file of a caption track: cue number, time line, text, blank.
SrtLine(kind, words) == [kind |-> kind, words |-> words]
SrtOf(language) ==
    <<SrtLine("digits", <<"1">>),
      SrtLine("time", <<"00:00:01,000", "-->", "00:00:04,000">>),
      SrtLine("text", IF language = LangEn THEN <<"hello">>
                      ELSE IF language = LangEnUS THEN <<"howdy">>
                      ELSE <<"bonjour">>),
      SrtLine("empty", << >>),
      SrtLine("digits", <<"2">>),
      SrtLine("time", <<"00:00:04,000", "-->", "00:00:08,000">>),
      SrtLine("text", <<"world">>),
      SrtLine("empty", << >>)>>

\* parseSRT: the text lines joined by one blank; empty lines, all-digit
\* lines and lines with a time stamp are skipped.
RECURSIVE parseSRT(_)
parseSRT(lines) ==
    IF lines = << >> THEN << >>
    ELSE (IF Head(lines).kind = "text" THEN Head(lines).words ELSE << >>)
         \o parseSRT(Tail(lines))

\* The tracks captions.list answers with: MaxTracks at most.
TrackLists ==
    UNION {[1..n -> [id : {1}, language : Languages]] : n \in 0..MaxTracks}
Numbered(items) == [k \in 1..Len(items) |-> [items[k] EXCEPT !.id = k]]

\* A call getVideoTranscript(lesson) of the caption service.
CaptionInit ==
    /\ geminiKey \in BOOLEAN
    /\ textChunks = {}
    /\ IngestIdle /\ BatchIdle /\ ChunkIdle
    /\ EmbedIdle /\ SearchIdle /\ AnswerIdle /\ ChatIdle
    /\ youtubeKey \in BOOLEAN
    /\ captionTracks \in {Numbered(t) : t \in TrackLists}
    /\ cap = [IdleCap EXCEPT !.pc = "start", !.lesson = 1]

\* The fall through to the Whisper branch with no captions.
NoCaptions(why) == [cap EXCEPT !.pc = "fallback", !.failed = why]

\* getYouTubeCaptions: if (!process.env.YOUTUBE_API_KEY) return null
CaptionsCheckKey ==
    /\ cap.pc = "start"
    /\ cap' = IF youtubeKey THEN [cap EXCEPT !.pc = "list"]
              ELSE NoCaptions("key")
    /\ UNCHANGED <<youtubeKey, captionTracks>>
    /\ UNCHANGED <<ingestVars, batchVars, chunkVars, embedVars, searchVars,
                   answerVars, chatVars>>

\* youtube.captions.list: the request fails (caught, null), or answers
\* with the tracks; no items: return null.
CaptionsList ==
    /\ cap.pc = "list"
    /\ \/ cap' = NoCaptions("list")
       \/ cap' = IF Len(captionTracks) = 0 THEN NoCaptions("items")
                 ELSE [cap EXCEPT !.pc = "find", !.items = captionTracks]
    /\ UNCHANGED <<youtubeKey, captionTracks>>
    /\ UNCHANGED <<ingestVars, batchVars, chunkVars, embedVars, searchVars,
                   answerVars, chatVars>>

\* items.find(...); if (!englishCaption?.id) return null
CaptionsFind ==
    /\ cap.pc = "find"
    /\ LET k == englishCaption(cap.items)
       IN  cap' = IF k = 0 THEN NoCaptions("english")
                  ELSE [cap EXCEPT !.pc = "download", !.englishCaption = k]
    /\ UNCHANGED <<youtubeKey, captionTracks>>
    /\ UNCHANGED <<ingestVars, batchVars, chunkVars, embedVars, searchVars,
                   answerVars, chatVars>>

\* youtube.captions.download and parseSRT: the request fails (caught,
\* null), or the track's file is parsed; the file of a track without cues
\* parses to "", which if (captions) takes for no captions.
CaptionsDownload ==
    /\ cap.pc = "download"
    /\ \/ cap' = NoCaptions("download")
       \/ \E srt \in {SrtOf(cap.items[cap.englishCaption].language), << >>} :
            LET plainText == parseSRT(srt)
            IN  cap' = IF plainText = << >> THEN NoCaptions("blank")
                       ELSE [cap EXCEPT !.pc = "save", !.captions = plainText]
    /\ UNCHANGED <<youtubeKey, captionTracks>>
    /\ UNCHANGED <<ingestVars, batchVars, chunkVars, embedVars, searchVars,
                   answerVars, chatVars>>

\* storage.createVideoTranscript({... source: "youtube_captions"}) and
\* return captions; a failed insert is caught and the Whisper branch runs.
CaptionsSave ==
    /\ cap.pc = "save"
    /\ \/ /\ videoTranscripts' = videoTranscripts \cup
               {[id |-> 1, lessonId |-> cap.lesson,
                 transcript |-> cap.captions, source |-> "youtube_captions",
                 language |-> "en"]}
          /\ cap' = [cap EXCEPT !.pc = "returned", !.result = cap.captions]
       \/ /\ videoTranscripts' = videoTranscripts
          /\ cap' = NoCaptions("insert")
    /\ UNCHANGED <<youtubeKey, captionTracks>>
    /\ UNCHANGED <<geminiKey, lessonVideo, files, textChunks, call, nreq,
                   overlapped>>
    /\ UNCHANGED <<batchVars, chunkVars, embedVars, searchVars, answerVars,
                   chatVars>>

\* The Whisper branch: a log line and return null; nothing is downloaded
\* and nothing is transcribed.
WhisperPlaceholder ==
    /\ cap.pc = "fallback"
    /\ cap' = [cap EXCEPT !.pc = "returned", !.result = NoText]
    /\ UNCHANGED <<youtubeKey, captionTracks>>
    /\ UNCHANGED <<ingestVars, batchVars, chunkVars, embedVars, searchVars,
                   answerVars, chatVars>>

CaptionNext ==
    \/ CaptionsCheckKey
    \/ CaptionsList
    \/ CaptionsFind
    \/ CaptionsDownload
    \/ CaptionsSave
    \/ WhisperPlaceholder

CaptionSpec == CaptionInit /\ [][CaptionNext]_vars

\* ---- chunker claims, checked under ChunkSpec ----

CeilDiv(a, b) == (a + b - 1) \div b
Returned == cpc = "returned"
ValidOverlap == coverlap < csize
Texts(chunks) == [k \in 1..Len(chunks) |-> chunks[k].content]

\* C11: for N words with N > chunkSize and 0 <= overlap < chunkSize the
\* number of chunks returned is ceil(max(1, N - overlap) / (chunkSize - overlap)).
C11_ChunkCountFormula ==
    (Returned /\ ValidOverlap /\ Len(cwords) > csize) =>
        Len(cchunks) = CeilDiv(Max(1, Len(cwords) - coverlap), csize - coverlap)

\* C12: a transcript with fewer words than chunkSize (0 <= overlap < chunkSize)
\* yields exactly one chunk, whose text is the whole transcript.
C12_ShortTranscriptOneChunk ==
    (Returned /\ ValidOverlap /\ Len(cwords) < csize) =>
        /\ Len(cchunks) = 1
        /\ cchunks[1].content = cwords

\* The first n words of a chunk's text (all of them when it has fewer).
FirstWords(text, n) == SubSeq(text, 1, Min(n, Len(text)))

RECURSIVE Reassemble(_, _, _)
Reassemble(chunks, k, step) ==
    IF k > Len(chunks) THEN << >>
    ELSE IF k = Len(chunks) THEN chunks[k].content
    ELSE FirstWords(chunks[k].content, step) \o Reassemble(chunks, k + 1, step)

\* C13: with 0 <= overlap < chunkSize, the first (chunkSize - overlap) words
\* of every chunk but the last, followed by all words of the last chunk, are
\* exactly the transcript's word sequence.
C13_ChunksCoverTranscript ==
    (Returned /\ ValidOverlap) =>
        Reassemble(cchunks, 1, csize - coverlap) = cwords

\* C13 witness: a returned call whose chunks overlap and number at least two.
C13_Witness ==
    /\ Returned
    /\ coverlap > 0
    /\ ValidOverlap
    /\ Len(cchunks) >= 2
    /\ \A k \in 1..Len(cwords) : cwords[k] # ""

FoxCall == cwords = FoxWords /\ csize = 5 /\ coverlap = 2

\* C15 as stated: chunking "the quick brown fox jumps over the lazy dog" with
\* chunkSize 5 and overlap 2 returns exactly the three chunks "the quick brown
\* fox jumps", "fox jumps over the lazy" and "lazy dog".
C15_FoxChunksAsStated ==
    (FoxCall /\ Returned) =>
        Texts(cchunks) = << <<"the", "quick", "brown", "fox", "jumps">>,
                            <<"fox", "jumps", "over", "the", "lazy">>,
                            <<"lazy", "dog">> >>

\* C15 amended: the same call returns exactly three chunks, "the quick brown
\* fox jumps", "fox jumps over the lazy" and "the lazy dog".
C15_FoxChunks ==
    (FoxCall /\ Returned) =>
        Texts(cchunks) = << <<"the", "quick", "brown", "fox", "jumps">>,
                            <<"fox", "jumps", "over", "the", "lazy">>,
                            <<"the", "lazy", "dog">> >>

\* C15 witness: the example call has returned three chunks.
C15_Witness == FoxCall /\ Returned /\ Len(cchunks) = 3

\* ---- persisted chunks, checked under Spec ----

CallNumbers == 1..(MaxRequests + NumLessons)
Ordinals(rows) == {r.chunkIndex : r \in rows}

\* The rows one ingest call has written so far carry the ordinals 0..count-1,
\* each once, and point to one transcript; every row has startTime <= endTime.
C14_RowsWellFormed ==
    /\ \A r \in textChunks : r.startTime <= r.endTime
    /\ \A n \in CallNumbers :
          /\ Ordinals(RowsBy(n)) = 0..(Cardinality(RowsBy(n)) - 1)
          /\ \A r1, r2 \in RowsBy(n) : r1.transcriptId = r2.transcriptId
    /\ \A p \in Callers :
          (Done(p) /\ call[p].result = "ok" /\ call[p].wrote > 0) =>
              Cardinality(RowsBy(call[p].no)) =
                  Len(chunkTranscript(SpokenWords(lessonVideo[call[p].lesson]),
                                      DefaultChunkSize, DefaultOverlap))

\* Every step that writes a chunk row writes the next ordinal of its call.
C14_NextOrdinal ==
    \A r \in textChunks' \ textChunks :
        r.chunkIndex = Cardinality(RowsBy(r.id[1]))

\* C14: every chunk the chunker produced and ingest persisted has
\* startTime <= endTime, and the ordinals one ingest call persists for a
\* transcript are exactly 0..count-1, written in increasing order without gap
\* or duplicate.
C14_TimesAndOrdinals == []C14_RowsWellFormed /\ [][C14_NextOrdinal]_vars

\* C14 witness: a finished call has persisted the three chunks of a long
\* transcript.
C14_Witness ==
    \E p \in Callers :
        /\ Done(p) /\ call[p].result = "ok"
        /\ Cardinality(RowsBy(call[p].no)) = 3

\* ---- embedding claims, checked under EmbedSpec ----

\* C16: a generateEmbeddings call that returns, returns one vector per text,
\* vector i being the embedding of texts[i]; a call in which the backend
\* fails on some text fails as a whole and hands back no vectors.  The
\* outcome is the one the ingest steps use.
C16_EmbedAllOrFail ==
    /\ epc = "returned" =>
          /\ Len(eembeddings) = Len(etexts)
          /\ \A k \in 1..Len(etexts) : eembeddings[k] = EmbeddingOf(etexts[k])
          /\ efailAt = 0
          /\ generateEmbeddings(geminiKey, etexts, efailAt) =
                 [threw |-> FALSE, value |-> eembeddings]
    /\ epc = "threw" =>
          /\ eembeddings = << >>
          /\ generateEmbeddings(geminiKey, etexts, efailAt).threw
    /\ (geminiKey /\ efailAt > 0) => epc # "returned"

\* C16 witness: a call for three texts, the first two different, has returned.
C16_Witness == epc = "returned" /\ Len(etexts) = 3 /\ etexts[1] # etexts[2]

\* A call whose third request fails has raised.
EmbedFailedLate == epc = "threw" /\ geminiKey /\ efailAt = 3

\* ---- search claims, checked under SearchSpec ----

\* The score of a stored chunk for the query of the calls.
QueryScore(r) == Similarity(EmbeddingOf(squery), r.embedding)
InScope(r) == slessonId # NoLesson => r.lessonId = slessonId
Passing == {r \in textChunks : InScope(r) /\ QueryScore(r) >= sthreshold}
CallsOf(impl) == {k \in 1..Len(scalls) : scalls[k].impl = impl /\ ~scalls[k].threw}

C17_EmptyResult ==
    \E k \in CallsOf("vector") :
        textChunks # {} /\ Passing = {} /\ scalls[k].value = << >>

\* Score and ordinal of entry i of a call's result.
HitScore(c, i) ==
    IF c.impl = "vector" THEN QueryScore(c.value[i]) ELSE c.value[i].score
HitOrdinal(c, i) ==
    IF c.impl = "vector" THEN c.value[i].chunkIndex
    ELSE c.value[i].chunk.chunkIndex

C19_RetrievedChunksInCourse ==
    \A i \in 1..Len(chat.relevantChunks) :
        chat.relevantChunks[i].lessonId \in CourseLessons(chat.courseId)

\* ---- answer claims, checked under AnswerSpec ----

AnswerReturned == apc = "returned"

C22_NotConfiguredMessage ==
    (AnswerReturned /\ ~geminiKey) =>
        /\ aresult = [answer |-> NotConfiguredMsg, sources |-> << >>]
        /\ ~acalled

\* C22 witness: an unconfigured call with two context chunks has returned.
C22_Witness == AnswerReturned /\ ~geminiKey /\ Len(achunks) = 2

\* An unconfigured call with no context chunk has returned.
C22_EmptyCase == AnswerReturned /\ ~geminiKey /\ Len(achunks) = 0

\* ---- generation failure, checked under ChatSpec ----

\* The sources computed from the retrieved chunks before the model call.
SourcesOf(chunks) ==
    [k \in 1..Len(chunks) |->
        [lessonId |-> chunks[k].lessonId, timestamp |-> chunks[k].startTime,
         snippet |-> Snippet(chunks[k].content)]]

GenerationFailed == chat.called /\ chat.reply.threw
ChatAnswered == chat.pc \in {"saveAssistant", "done"}

CaptionReturned == cap.pc = "returned"

\* C24: the caption fetch comes first and the speech-to-text fallback runs
\* exactly when it gave no captions: a call that got no captions returns
\* the transcript the fallback produced.
C24_AsrFallbackReturnsTranscript ==
    (CaptionReturned /\ cap.captions = NoText) => cap.result # NoText

\* C28: the selected caption track is an exact language match whenever the
\* video has one, whatever its position; a prefix match is selected only
\* when no track matches exactly.
C28_ExactMatchPreferred ==
    (cap.englishCaption # 0
       /\ \E k \in 1..Len(cap.items) : cap.items[k].language = LangEn)
      => cap.items[cap.englishCaption].language = LangEn

\* ---- ingest claims, checked under Spec ----

\* No processLessonForRAG call for lesson l is in progress.
LessonQuiet(l) == \A p \in Callers : InFlight(p) => call[p].lesson # l

\* The chunk rows stored for transcript record t: one row per chunk the
\* chunker makes of its text, every row with an embedding.
CompleteChunks(t) ==
    LET outs == chunkTranscript(t.transcript, DefaultChunkSize, DefaultOverlap)
        rows == {r \in textChunks : r.transcriptId = t.id}
    IN  /\ Cardinality(rows) = Len(outs)
        /\ Ordinals(rows) = 0..(Len(outs) - 1)
        /\ \A r \in rows : r.lessonId = t.lessonId /\ r.embedding # NoVector

\* C25: whenever a lesson has a transcript record and no ingest call for it
\* is in progress, its chunk set is complete: one chunk per chunker output,
\* each with an embedding; no failure leaves a transcript with no chunks or
\* with part of them.
C25_TranscriptHasCompleteChunks ==
    \A l \in Lessons :
        (TranscriptRows(l) # {} /\ LessonQuiet(l)) =>
            \E t \in TranscriptRows(l) : CompleteChunks(t)

\* An ingest call for lesson l made after the caller's call for l was
\* aborted by an embedding failure, the embedding backend being configured.
Reinvoked(l) ==
    /\ geminiKey
    /\ \E p \in Callers : call[p].lesson = l /\ call[p].afterEmbedFail

\* C26: after an ingest call aborted by an embedding failure, invoking
\* ingest again for the lesson with a working embedding backend eventually
\* persists the lesson's chunks.
C26_ReinvokePersistsChunks ==
    \A l \in Lessons :
        Reinvoked(l) ~> (\E t \in TranscriptRows(l) : CompleteChunks(t))

\* The chunks the chunker makes of the transcript call p acquired.
OutputsOf(p) ==
    chunkTranscript(SpokenWords(lessonVideo[call[p].lesson]),
                    DefaultChunkSize, DefaultOverlap)

\* Call p acquired a transcript, embedded its chunks and wrote them all.
IngestSucceeded(p) ==
    Done(p) /\ call[p].result = "ok" /\ call[p].embedCalls = 1

\* C27: an ingest call whose acquisition and embedding succeeded has
\* persisted one chunk per chunker output: chunk i carries ordinal i, the
\* content and time bounds of output i, the embedding of output i, the
\* lesson id and the id of the transcript record the call created.
C27_PersistedChunksMatchOutputs ==
    \A p \in Callers :
        IngestSucceeded(p) =>
            LET outs == OutputsOf(p)
                rows == RowsBy(call[p].no)
            IN  /\ Cardinality(rows) = Len(outs)
                /\ Ordinals(rows) = 0..(Len(outs) - 1)
                /\ \A r \in rows :
                     LET o == outs[r.chunkIndex + 1]
                     IN  /\ r.content = o.content
                         /\ r.startTime = o.startTime
                         /\ r.endTime = o.endTime
                         /\ r.embedding = EmbeddingOf(o.content)
                         /\ r.lessonId = call[p].lesson
                         /\ r.transcriptId = call[p].no

\* C29: the snippet of every source is the first 200 characters of its
\* chunk's text, and the ellipsis is appended exactly when the text is
\* longer than 200 characters: a text of exactly 200 characters gets none.
C29_SnippetFirst200 ==
    (AnswerReturned /\ geminiKey) =>
        \A k \in 1..Len(aresult.sources) :
            LET str == Join(achunks[k].content)
                snippet == aresult.sources[k].snippet
            IN  IF Len(str) <= SnippetLimit THEN snippet = str
                ELSE /\ Len(snippet) = SnippetLimit + 3
                     /\ SubSeq(snippet, 1, SnippetLimit) =
                            SubSeq(str, 1, SnippetLimit)
                     /\ SubSeq(snippet, SnippetLimit + 1, SnippetLimit + 3)
                            = "..."

\* C29 witness: a returned call had a chunk of exactly 200 characters, whose
\* snippet is the whole text, and a chunk of 201, whose snippet is its first
\* 200 characters and the ellipsis.
C29_Witness ==
    /\ AnswerReturned /\ geminiKey /\ Len(aresult.sources) = 2
    /\ Len(Join(achunks[1].content)) = SnippetLimit
    /\ aresult.sources[1].snippet = Join(achunks[1].content)
    /\ Len(Join(achunks[2].content)) = SnippetLimit + 1
    /\ aresult.sources[2].snippet = Join(achunks[1].content) \o "..."

\* ---- chat route claim, checked under ChatSpec ----

MessagesOf(role) ==
    {k \in 1..Len(chatMessages) : chatMessages[k].role = role}

====
